---------------------------- MODULE Spec2Model ----------------------------
(***************************************************************************)
(* A model of build.py of windragon: the settings store, the line cleaner, *)
(* the script combiner, the launcher patcher and the orchestrator that     *)
(* runs them in sequence.                                                  *)
(*                                                                         *)
(* A text (a line, a file name, a path, a file's content) is a sequence of *)
(* one-character strings, so that substring tests, stripping, the regular  *)
(* expressions and the formatting of numbers are computed character by     *)
(* character as Python computes them.  A file read by read_file is the     *)
(* list readlines() returns: each line keeps its line terminator.          *)
(***************************************************************************)
EXTENDS Integers, Sequences, FiniteSets

VARIABLES
  platform,            \* os.name: "posix" or "nt" (decides pathlib's flavour)
  fs_settings,         \* settings.json on disk
  fs_main,             \* winDragon.ps1 on disk
  fs_modules,          \* the Modules folder: file name -> lines
  fs_launcher,         \* launcher.ps1 on disk
  fs_build,            \* the build directory: file name -> content
  fs_drives,           \* Windows: the drive the script runs on, and the
                       \* current directories of the other drives
  pc,                  \* the statement of __main__ to run next
  settings,            \* __main__: settings
  version_string,      \* __main__: version_string
  output_file,         \* __main__: output_file
  console,             \* what print() has written, one entry per call
  error,               \* the exception that ended the run, or "none"
  runs,                \* number of runs of the script started so far
  line_pc,             \* the statement to run next inside the function that
                       \* is followed statement by statement, or "idle"
  lines,               \* clean_lines: lines
  cl_pos,              \* clean_lines: number of lines the loop has consumed
  inside_ascii_art,    \* clean_lines: inside_ascii_art
  cleaned_lines,       \* clean_lines: cleaned_lines
  main_script_lines,   \* combine_powershell_scripts: main_script_lines
  cs_pos,              \* combine_powershell_scripts: lines consumed
  inside_show_dragon,  \* combine_powershell_scripts: inside_show_dragon
  combined_script,     \* combine_powershell_scripts: combined_script
  launcher_lines,      \* update_launcher_script: launcher_lines
  ul_pos,              \* update_launcher_script: lines consumed
  found,               \* update_launcher_script: found
  updated_lines        \* update_launcher_script: updated_lines

vars == <<platform, fs_settings, fs_main, fs_modules, fs_launcher, fs_build, fs_drives,
          pc, settings, version_string, output_file, console, error, runs,
          lines, cl_pos, inside_ascii_art, cleaned_lines,
          main_script_lines, cs_pos, inside_show_dragon, combined_script,
          launcher_lines, ul_pos, found, updated_lines, line_pc>>

fsVars == <<platform, fs_settings, fs_main, fs_modules, fs_launcher, fs_build, fs_drives>>
mainVars == <<pc, settings, version_string, output_file, console, error, runs>>
cleanVars == <<lines, cl_pos, inside_ascii_art, cleaned_lines>>
combineVars == <<main_script_lines, cs_pos, inside_show_dragon, combined_script>>
stepVars == <<line_pc>>
launcherVars == <<launcher_lines, ul_pos, found, updated_lines>>

(***************************************************************************)
(* Bounds of the model.                                                    *)
(***************************************************************************)
MaxLines == 3      \* longest list of lines handed to clean_lines
MaxMainLines == 3  \* longest main script handed to the combiner
MaxLauncherLines == 3  \* longest launcher handed to the patcher
MaxRuns == 2       \* runs of the script in a row

(***************************************************************************)
(* Literal texts of the source, and the texts the inputs are built from.   *)
(***************************************************************************)
\* clean_lines: the token that starts an ASCII art section
ShowDragonToken ==
  <<"S","h","o","w","-","D","r","a","g","o","n">>

\* combine_powershell_scripts: the token that starts the verbatim function
FunctionShowDragonToken ==
  <<"f","u","n","c","t","i","o","n"," ","S","h","o","w","-","D","r","a","g","o","n">>

\* module_pattern: the literal \Modules\ of the import pattern
ModulesSegment ==
  <<"\\","M","o","d","u","l","e","s","\\">>

\* module_pattern: the literal .ps1 that ends an import
Ps1Suffix ==
  <<".","p","s","1">>

\* update_launcher_script: the variable looked for in the launcher
LauncherToken ==
  <<"$","w","i","n","D","r","a","g","o","n","S","c","r","i","p","t","P","a","t","h">>

\* update_launcher_script: the URL assignment up to the artifact's filename
UrlPrefix ==
  <<"$","w","i","n","D","r","a","g","o","n","S","c","r","i","p","t","P","a","t","h"," ","="," ",
    "\"","h","t","t","p","s",":","/","/","r","a","w",".","g","i","t","h","u","b","u","s","e",
    "r","c","o","n","t","e","n","t",".","c","o","m","/","g","a","l","a","c","t","i","c","-","p",
    "l","a","n","e","/","w","i","n","d","r","a","g","o","n","/","m","a","i","n","/","b","u","i",
    "l","d","/">>

\* update_launcher_script: the quote that closes the URL assignment
UrlSuffix ==
  <<"\"">>

\* update_launcher_script: the PowerShell block inserted after the URL assignment
ps_code_to_insert ==
  <<"\n"," "," "," "," ","#"," ","D","e","f","i","n","e"," ","a"," ","l","o","c","a","l"," ",
    "t","e","m","p","o","r","a","r","y"," ","f","i","l","e"," ","p","a","t","h","\n"," "," ",
    " "," ","$","t","e","m","p","F","i","l","e","P","a","t","h"," ","="," ","\"","$","e","n",
    "v",":","T","E","M","P","\\","w","i","n","D","r","a","g","o","n",".","p","s","1","\"","\n",
    "\n"," "," "," "," ","#"," ","D","o","w","n","l","o","a","d"," ","t","h","e"," ","s","c",
    "r","i","p","t","\n"," "," "," "," ","t","r","y"," ","{","\n"," "," "," "," "," "," "," ",
    " ","I","n","v","o","k","e","-","W","e","b","R","e","q","u","e","s","t"," ","-","U","r","i",
    " ","$","w","i","n","D","r","a","g","o","n","S","c","r","i","p","t","U","R","L"," ","-","O",
    "u","t","F","i","l","e"," ","$","t","e","m","p","F","i","l","e","P","a","t","h"," ","-","E",
    "r","r","o","r","A","c","t","i","o","n"," ","S","t","o","p","\n"," "," "," "," "," "," ",
    " "," ","W","r","i","t","e","-","H","o","s","t"," ","\"","W","i","n","D","r","a","g","o",
    "n"," ","s","c","r","i","p","t"," ","d","o","w","n","l","o","a","d","e","d"," ","s","u","c",
    "c","e","s","s","f","u","l","l","y",".","\""," ","-","F","o","r","e","g","r","o","u","n",
    "d","C","o","l","o","r"," ","G","r","e","e","n","\n"," "," "," "," ","}"," ","c","a","t",
    "c","h"," ","{","\n"," "," "," "," "," "," "," "," ","W","r","i","t","e","-","H","o","s",
    "t"," ","\"","F","a","i","l","e","d"," ","t","o"," ","d","o","w","n","l","o","a","d"," ",
    "t","h","e"," ","s","c","r","i","p","t",":"," ","$","_","\""," ","-","F","o","r","e","g",
    "r","o","u","n","d","C","o","l","o","r"," ","R","e","d","\n"," "," "," "," "," "," "," ",
    " ","e","x","i","t","\n"," "," "," "," ","}","\n"," "," "," "," ","$","w","i","n","D","r",
    "a","g","o","n","S","c","r","i","p","t","P","a","t","h"," ","="," ","$","t","e","m","p","F",
    "i","l","e","P","a","t","h","\n"," "," "," "," ">>

\* the output directory
BuildDirName ==
  <<"b","u","i","l","d">>

\* __main__: the artifact's filename before the version string
ArtifactPrefix ==
  <<"w","i","n","D","r","a","g","o","n","_">>

\* __main__: the artifact's filename after the version string
ArtifactSuffix ==
  <<".","p","s","1">>

\* __main__: the launcher's path
launcher_file ==
  <<"l","a","u","n","c","h","e","r",".","p","s","1">>

\* __main__: the main script's path
source_file ==
  <<"w","i","n","D","r","a","g","o","n",".","p","s","1">>

\* __main__: the folder of the modules
modules_folder ==
  <<"M","o","d","u","l","e","s">>

\* __main__: the text printed before the output path
PrintPrefix ==
  <<"C","o","m","b","i","n","e","d"," ","s","c","r","i","p","t"," ","h","a","s"," ","b","e","e",
    "n"," ","s","a","v","e","d"," ","t","o"," ">>

LCode ==
  <<"x","\n">>

LCodeComment ==
  <<"","U+3000"," ","f","o","o"," ","#"," ","b","a","r"," ","\n">>

LComment ==
  <<"#"," ","c","\n">>

LBlank ==
  <<"\n">>

LSpaces ==
  <<" ","\t","","U+2028","\n">>

LTrigger ==
  <<" ","S","h","o","w","-","D","r","a","g","o","n"," ","#"," ","a","r","t"," ","","U+2003",
    "\n">>

LFunction ==
  <<"f","u","n","c","t","i","o","n"," ","S","h","o","w","-","D","r","a","g","o","n"," ","{","\n">>

LImportFoo ==
  <<".","U+205F"," ","C",":","\\","p","r","o","j","\\","M","o","d","u","l","e","s","\\","F","o",
    "o",".","p","s","1","\n">>

LImportGone ==
  <<".","\t","","U+2003",".","\\","M","o","d","u","l","e","s","\\","G","o","n","e",".","p","s",
    "1","\n">>

LImportShare ==
  <<"."," ","\\","\\","M","o","d","u","l","e","s","\\","F","o","o",".","p","s","1","\n">>

LImportDrive ==
  <<"."," ","x","\\","M","o","d","u","l","e","s","\\","C",":","l","a","u","n","c","h","e","r",
    ".","p","s","1","\n">>

LImportTrail ==
  <<"."," ","C",":","\\","p","r","o","j","\\","M","o","d","u","l","e","s","\\","F","o","o",".",
    "p","s","1"," ","\n">>

LModX ==
  <<"X","\n">>

LModY ==
  <<"Y">>

NameFooNt ==
  <<"f","o","o",".","P","S","1">>

NameFooPosix ==
  <<"C",":","\\","p","r","o","j","\\","M","o","d","u","l","e","s","\\","F","o","o",".","p","s",
    "1">>

LLaunchAssign ==
  <<"$","w","i","n","D","r","a","g","o","n","S","c","r","i","p","t","P","a","t","h"," ","="," ",
    "\"","o","l","d",".","p","s","1","\""," ","\n">>

LLaunchUse ==
  <<" "," ","&"," ","$","w","i","n","D","r","a","g","o","n","S","c","r","i","p","t","P","a","t",
    "h","\t","U+2029","\n">>

LLaunchOther ==
  <<" "," ","W","r","i","t","e","-","H","o","s","t"," ","h","i"," "," ","U+200A","\n">>

StaleArtifactName ==
  <<"w","i","n","D","r","a","g","o","n","_","0",".","9",".","0",".","1",".","p","s","1">>

StaleOtherName ==
  <<"n","o","t","e","s",".","t","x","t">>

StaleContent ==
  <<"o","l","d">>

(***************************************************************************)
(* Text operations.                                                        *)
(***************************************************************************)
\* A character from U+2000 on cannot be written in a string of this language:
\* in every text of the model it is the string that names its code point,
\* "U+2003" for U+2003.  These are the ones str.isspace() holds of.
UnicodeSpaces ==
  {"U+2000", "U+2001", "U+2002", "U+2003", "U+2004", "U+2005", "U+2006", "U+2007",
   "U+2008", "U+2009", "U+200A", "U+2028", "U+2029", "U+202F", "U+205F", "U+3000"}

\* str.strip()/rstrip() and the \s of re: the characters str.isspace() holds
\* of.  After \f come, written as themselves, U+000B, U+001C to U+001F,
\* U+0085, U+00A0 and U+1680.
Whitespace ==
  {" ", "\t", "\n", "\r", "\f", "", "", "", "", "", "", " ", " "} \cup UnicodeSpaces

\* t in s
Contains(s, t) ==
  \E p \in 1..(Len(s) - Len(t) + 1) : SubSeq(s, p, p + Len(t) - 1) = t

RECURSIVE rstrip(_)
rstrip(s) ==
  IF s = <<>> THEN <<>>
  ELSE IF s[Len(s)] \in Whitespace THEN rstrip(SubSeq(s, 1, Len(s) - 1))
  ELSE s

RECURSIVE lstrip(_)
lstrip(s) ==
  IF s = <<>> THEN <<>>
  ELSE IF s[1] \in Whitespace THEN lstrip(Tail(s))
  ELSE s

strip(s) == lstrip(rstrip(s))

\* re.sub(r"#.*", "", line): every '#' and what follows it up to, and not
\* including, the next newline is removed
RECURSIVE re_sub_comment(_, _)
re_sub_comment(s, in_comment) ==
  IF s = <<>> THEN <<>>
  ELSE IF s[1] = "\n" THEN <<"\n">> \o re_sub_comment(Tail(s), FALSE)
  ELSE IF in_comment \/ s[1] = "#" THEN re_sub_comment(Tail(s), TRUE)
  ELSE <<s[1]>> \o re_sub_comment(Tail(s), FALSE)

\* sep.join(parts)
RECURSIVE Join(_, _)
Join(parts, sep) ==
  IF parts = <<>> THEN <<>>
  ELSE IF Len(parts) = 1 THEN parts[1]
  ELSE parts[1] \o sep \o Join(Tail(parts), sep)

\* the lists of at most n elements of S
RECURSIVE SeqsUpTo(_, _)
SeqsUpTo(S, n) ==
  IF n = 0 THEN {<<>>}
  ELSE LET shorter == SeqsUpTo(S, n - 1)
       IN shorter \cup {Append(s, x) : s \in {t \in shorter : Len(t) = n - 1}, x \in S}

(***************************************************************************)
(* clean_lines                                                             *)
(***************************************************************************)
\* CleanStep with the ASCII art lines stripped on both sides
CleanStepStrip(st, line) ==
  LET inside == st.inside_ascii_art \/ Contains(line, ShowDragonToken)
      stripped_line == strip(re_sub_comment(line, FALSE))
  IN IF inside
     THEN [inside_ascii_art |-> ~(strip(line) = <<>>),
           cleaned_lines |-> Append(st.cleaned_lines, strip(line))]
     ELSE [inside_ascii_art |-> FALSE,
           cleaned_lines |-> IF stripped_line # <<>>
                             THEN Append(st.cleaned_lines, stripped_line)
                             ELSE st.cleaned_lines]

\* one iteration of the loop of clean_lines on the locals
\* st = [inside_ascii_art, cleaned_lines]
CleanStep(st, line) ==
  LET inside == st.inside_ascii_art \/ Contains(line, ShowDragonToken)
      stripped_line == strip(re_sub_comment(line, FALSE))
  IN IF inside
     THEN [inside_ascii_art |-> ~(strip(line) = <<>>),
           cleaned_lines |-> Append(st.cleaned_lines, rstrip(line))]
     ELSE [inside_ascii_art |-> FALSE,
           cleaned_lines |-> IF stripped_line # <<>>
                             THEN Append(st.cleaned_lines, stripped_line)
                             ELSE st.cleaned_lines]

RECURSIVE CleanFold(_, _)
CleanFold(st, ls) ==
  IF ls = <<>> THEN st ELSE CleanFold(CleanStep(st, ls[1]), Tail(ls))

\* clean_lines without the ASCII art sections: every line is cleaned
RECURSIVE clean_lines_no_art(_)
clean_lines_no_art(ls) ==
  IF ls = <<>> THEN <<>>
  ELSE LET stripped_line == strip(re_sub_comment(ls[1], FALSE))
       IN (IF stripped_line # <<>> THEN <<stripped_line>> ELSE <<>>)
            \o clean_lines_no_art(Tail(ls))

\* clean_lines(lines): the locals start afresh in every call
clean_lines(ls) ==
  CleanFold([inside_ascii_art |-> FALSE, cleaned_lines |-> <<>>], ls).cleaned_lines

(***************************************************************************)
(* Python values: a dict is the list of its <<key, value>> items in        *)
(* insertion order, a value is tagged with its type.                       *)
(***************************************************************************)
PyStr(s) == [t |-> "str", v |-> s]
PyInt(n) == [t |-> "int", v |-> n]
PyDict(d) == [t |-> "dict", v |-> d]

\* key in d
Has(d, key) == \E i \in DOMAIN d : d[i][1] = key
\* d[key]
Get(d, key) == d[CHOOSE i \in DOMAIN d : d[i][1] = key][2]
\* d[key] = value
Set(d, key, value) ==
  IF Has(d, key)
  THEN [i \in DOMAIN d |-> IF d[i][1] = key THEN <<key, value>> ELSE d[i]]
  ELSE Append(d, <<key, value>>)

\* json.load of an object: the members are inserted in the order of the
\* document, a repeated name overwrites the earlier value
RECURSIVE json_load(_)
json_load(members) ==
  IF members = <<>> THEN <<>>
  ELSE LET front == json_load(SubSeq(members, 1, Len(members) - 1))
           last == members[Len(members)]
           value == IF last[2].t = "dict" THEN PyDict(json_load(last[2].v)) ELSE last[2]
       IN Set(front, last[1], value)

\* json.dump of a dict: one member per item, in the order of the dict
RECURSIVE json_dump(_)
json_dump(d) ==
  [i \in DOMAIN d |->
     <<d[i][1], IF d[i][2].t = "dict" THEN PyDict(json_dump(d[i][2].v)) ELSE d[i][2]>>]

FileAbsent == [state |-> "absent"]
FileMalformed == [state |-> "malformed"]
JsonFile(members) == [state |-> "json", doc |-> members]

VersionDict(major, minor, patch, build) ==
  <<<<"major", PyInt(major)>>, <<"minor", PyInt(minor)>>,
    <<"patch", PyInt(patch)>>, <<"build", PyInt(build)>>>>

\* read_settings: the settings of a file that does not exist
default_settings ==
  <<<<"defaultSource", PyStr("D:\\")>>,
    <<"defaultDestination", PyStr("B:\\DayAfter")>>,
    <<"version", PyDict(VersionDict(1, 0, 0, 0))>>>>

\* read_settings that saves the settings it repaired
read_settings_saving_repair(file) ==
  IF file.state = "absent"
  THEN [settings |-> default_settings,
        file |-> JsonFile(json_dump(default_settings)),
        error |-> "none"]
  ELSE IF file.state = "malformed"
  THEN [settings |-> <<>>, file |-> file, error |-> "JSONDecodeError"]
  ELSE LET loaded == json_load(file.doc)
           repaired == IF Has(loaded, "version") THEN loaded
                       ELSE Set(loaded, "version", PyDict(VersionDict(1, 0, 0, 0)))
       IN [settings |-> repaired, file |-> JsonFile(json_dump(repaired)), error |-> "none"]

\* read_settings(settings_file): the settings returned, the file afterwards
\* and the exception raised, if any
read_settings(file) ==
  IF file.state = "absent"
  THEN [settings |-> default_settings,
        file |-> JsonFile(json_dump(default_settings)),
        error |-> "none"]
  ELSE IF file.state = "malformed"
  THEN [settings |-> <<>>, file |-> file, error |-> "JSONDecodeError"]
  ELSE LET loaded == json_load(file.doc)
       IN [settings |-> IF Has(loaded, "version") THEN loaded
                        ELSE Set(loaded, "version", PyDict(VersionDict(1, 0, 0, 0))),
           file |-> file,
           error |-> "none"]

\* the build number at which the patch number is advanced instead
BuildCeiling == 9999

\* bump_settings that rolls over one build too late
bump_settings_late_rollover(s) ==
  LET version == Get(s, "version").v
      build == Get(version, "build").v
      patch == Get(version, "patch").v
  IN IF build > BuildCeiling
     THEN Set(s, "version",
              PyDict(Set(Set(version, "build", PyInt(0)), "patch", PyInt(patch + 1))))
     ELSE Set(s, "version", PyDict(Set(version, "build", PyInt(build + 1))))

\* update_build_number: the settings after the update
bump_settings(s) ==
  LET version == Get(s, "version").v
      build == Get(version, "build").v
      patch == Get(version, "patch").v
  IN IF build >= BuildCeiling
     THEN Set(s, "version",
              PyDict(Set(Set(version, "build", PyInt(0)), "patch", PyInt(patch + 1))))
     ELSE Set(s, "version", PyDict(Set(version, "build", PyInt(build + 1))))

\* update_build_number(settings_file, settings): the settings afterwards and
\* the file written
update_build_number(s) ==
  [settings |-> bump_settings(s), file |-> JsonFile(json_dump(bump_settings(s)))]

\* str(n) of a non-negative integer
Digit(d) == <<"0", "1", "2", "3", "4", "5", "6", "7", "8", "9">>[d + 1]
RECURSIVE IntToStr(_)
IntToStr(n) == IF n < 10 THEN <<Digit(n)>> ELSE Append(IntToStr(n \div 10), Digit(n % 10))

\* get_version_string with the patch and build numbers in each other's place
get_version_string_swapped(version) ==
  IntToStr(Get(version, "major").v) \o <<".">> \o IntToStr(Get(version, "minor").v)
    \o <<".">> \o IntToStr(Get(version, "build").v)
    \o <<".">> \o IntToStr(Get(version, "patch").v)

\* get_version_string(version)
get_version_string(version) ==
  IntToStr(Get(version, "major").v) \o <<".">> \o IntToStr(Get(version, "minor").v)
    \o <<".">> \o IntToStr(Get(version, "patch").v)
    \o <<".">> \o IntToStr(Get(version, "build").v)

(***************************************************************************)
(* Paths and directories.                                                  *)
(***************************************************************************)
\* the separators pathlib splits a path at
Separators(os) == IF os = "nt" THEN {"\\", "/"} ELSE {"/"}
\* the separator pathlib joins with
Sep(os) == IF os = "nt" THEN "\\" ELSE "/"

\* str(Path(a) / b)
PathJoin(os, a, b) == a \o <<Sep(os)>> \o b

\* the parts of s between separators
RECURSIVE SplitParts(_, _)
SplitParts(os, s) ==
  IF \A i \in DOMAIN s : s[i] \notin Separators(os)
  THEN <<s>>
  ELSE LET d == CHOOSE i \in DOMAIN s :
                  s[i] \in Separators(os) /\ \A j \in 1..(i - 1) : s[j] \notin Separators(os)
       IN <<SubSeq(s, 1, d - 1)>> \o SplitParts(os, SubSeq(s, d + 1, Len(s)))

\* the letters a drive of Windows is named with
DriveLetters ==
  {"a","b","c","d","e","f","g","h","i","j","k","l","m","n","o","p","q","r","s","t","u","v","w","x","y","z"}
    \cup {"A","B","C","D","E","F","G","H","I","J","K","L","M","N","O","P","Q","R","S","T","U","V","W","X","Y","Z"}

\* s without the characters of set at its start
RECURSIVE LStripChars(_, _)
LStripChars(s, set) ==
  IF s # <<>> /\ s[1] \in set THEN LStripChars(Tail(s), set) ELSE s

\* pathlib's splitroot for Windows (of Python 3.11, which later versions
\* agree with on every path of the model), in its steps.  normcase of the
\* separators: altsep becomes sep
NtNormal(p) == [i \in DOMAIN p |-> IF p[i] = "/" THEN "\\" ELSE p[i]]

\* s.startswith(t)
StartsWith(s, t) == Len(s) >= Len(t) /\ SubSeq(s, 1, Len(t)) = t

\* s[i - 1:i], the character at position i or '' past the end
CharAt(s, i) == IF i <= Len(s) THEN s[i] ELSE ""

\* _split_extended_path: \\?\ is set aside, \\?\UNC\x is read as \\x
NtExtended(normal) ==
  IF StartsWith(normal, <<"\\", "\\", "?", "\\">>)
  THEN LET rest == SubSeq(normal, 5, Len(normal))
       IN IF StartsWith(rest, <<"U", "N", "C", "\\">>)
          THEN <<"\\">> \o SubSeq(rest, 4, Len(rest))
          ELSE rest
  ELSE normal

\* part.find(sep, from), 0 when there is none
FindSep(part, from) ==
  IF \E i \in from..Len(part) : part[i] = "\\"
  THEN CHOOSE i \in from..Len(part) :
         part[i] = "\\" /\ \A j \in from..(i - 1) : part[j] # "\\"
  ELSE 0

\* what is left of the normalised path after a UNC drive \\machine\share
\* and its root; the path itself when it has no UNC drive
NtAfterUnc(part) ==
  LET index == FindSep(part, 3)
      index2 == IF index = 0 THEN 0 ELSE FindSep(part, index + 1)
  IN IF /\ CharAt(part, 1) = "\\" /\ CharAt(part, 2) = "\\" /\ CharAt(part, 3) # "\\"
        /\ index # 0
        /\ index2 # index + 1
     THEN [unc |-> TRUE,
           tail |-> IF index2 = 0 THEN <<>> ELSE SubSeq(part, index2 + 1, Len(part))]
     ELSE [unc |-> FALSE, tail |-> part]

\* what is left of a path after its drive and its root
NtTail(p0) ==
  LET part == NtExtended(NtNormal(p0))
      split == NtAfterUnc(part)
  IN IF split.unc
     THEN split.tail
     ELSE IF CharAt(part, 2) = ":" /\ CharAt(part, 1) \in DriveLetters
          THEN LStripChars(SubSeq(part, 3, Len(part)), {"\\"})
          ELSE LStripChars(part, {"\\"})

\* pathlib: the components of a path after its drive and root, without the
\* empty ones and the '.' ones
PathParts(os, p) ==
  LET raw == SplitParts(os, IF os = "nt" THEN NtTail(p) ELSE p)
      Named(part) == part # <<>> /\ part # <<".">>
  IN SelectSeq(raw, Named)

\* Path(p).name: the last component, '' when there is none
PathName(os, p) ==
  LET parts == PathParts(os, p)
  IN IF parts = <<>> THEN <<>> ELSE parts[Len(parts)]

EmptyFiles == [n \in {} |-> <<>>]
NoDir == [exists |-> FALSE, files |-> EmptyFiles]
Dir(files) == [exists |-> TRUE, files |-> files]
NoFile == [exists |-> FALSE, lines |-> <<>>]
File(ls) == [exists |-> TRUE, lines |-> ls]

\* open(name, "w").write(content) in a directory
WriteFile(files, name, content) ==
  [n \in (DOMAIN files) \cup {name} |-> IF n = name THEN content ELSE files[n]]

\* delete_build_directory that leaves the directory in place
delete_build_directory_keep(dir) == dir

\* delete_build_directory(directory)
delete_build_directory(dir) == IF dir.exists THEN NoDir ELSE dir

\* ensure_directory_exists(directory)
ensure_directory_exists(dir) == IF dir.exists THEN dir ELSE Dir(EmptyFiles)

(***************************************************************************)
(* combine_powershell_scripts                                              *)
(***************************************************************************)
\* .*\\Modules\\.*\.ps1 matches the whole of g ('.' matches no newline)
GroupMatches(g) ==
  /\ ~Contains(g, <<"\n">>)
  /\ Len(g) >= Len(Ps1Suffix)
  /\ SubSeq(g, Len(g) - Len(Ps1Suffix) + 1, Len(g)) = Ps1Suffix
  /\ \E p \in 1..Len(g) :
       /\ p + Len(ModulesSegment) - 1 <= Len(g) - Len(Ps1Suffix)
       /\ SubSeq(g, p, p + Len(ModulesSegment) - 1) = ModulesSegment

\* the ways ^\.\s+(...)$ matches the line: <<k, e>> with k whitespace
\* characters after the dot and the group ending at e, where e is the end of
\* the line or the position before a final newline
MatchCandidates(line) ==
  LET n == Len(line)
      Ends == {n} \cup (IF n > 0 /\ line[n] = "\n" THEN {n - 1} ELSE {})
  IN {c \in (1..n) \X Ends :
        /\ line[1] = "."
        /\ c[1] + 1 <= n
        /\ \A j \in 2..(c[1] + 1) : line[j] \in Whitespace
        /\ GroupMatches(SubSeq(line, c[1] + 2, c[2]))}

\* module_pattern.match(line): whether it matches and group(1); \s+ is
\* greedy, so the match with the most whitespace is the one returned
module_match(line) ==
  LET cands == MatchCandidates(line)
  IN IF cands = {} THEN [matched |-> FALSE, group |-> <<>>]
     ELSE LET c == CHOOSE c \in cands : \A d \in cands : d[1] <= c[1]
          IN [matched |-> TRUE, group |-> SubSeq(line, c[1] + 2, c[2])]

\* the exception open() raises on a directory
DirectoryError(os) == IF os = "nt" THEN "PermissionError" ELSE "IsADirectoryError"

\* the capital of a letter, for the letters of ASCII and of Latin-1 that
\* have one there; any other character is left as it is
Capital(c) ==
  LET small == <<"a","b","c","d","e","f","g","h","i","j","k","l","m",
                 "n","o","p","q","r","s","t","u","v","w","x","y","z",
                 "à","á","â","ã","ä","å","æ","ç","è","é","ê","ë","ì","í","î",
                 "ï","ð","ñ","ò","ó","ô","õ","ö","ø","ù","ú","û","ü","ý","þ">>
      big == <<"A","B","C","D","E","F","G","H","I","J","K","L","M",
               "N","O","P","Q","R","S","T","U","V","W","X","Y","Z",
               "À","Á","Â","Ã","Ä","Å","Æ","Ç","È","É","Ê","Ë","Ì","Í","Î",
               "Ï","Ð","Ñ","Ò","Ó","Ô","Õ","Ö","Ø","Ù","Ú","Û","Ü","Ý","Þ">>
  IN IF \E i \in DOMAIN small : small[i] = c
     THEN big[CHOOSE i \in DOMAIN small : small[i] = c]
     ELSE c

\* whether two file names name the same file of a directory: Windows does
\* not tell the cases of a letter apart, POSIX does
SameName(os, a, b) ==
  IF os = "nt"
  THEN Len(a) = Len(b) /\ \A i \in DOMAIN a : Capital(a[i]) = Capital(b[i])
  ELSE a = b

\* the names under which the directory holds the file called name
Entries(os, files, name) == {f \in DOMAIN files : SameName(os, f, name)}

\* whether a file name starts with a drive, as 'C:launcher.ps1' does on
\* Windows
HasDrive(os, name) ==
  os = "nt" /\ CharAt(name, 2) = ":" /\ CharAt(name, 1) \in DriveLetters

\* the files the script reads: the three of the working directory, the
\* drive it is on and the current directories of the other drives
Disk(main, modules, launcher, drives) ==
  [main |-> main, modules |-> modules, launcher |-> launcher, drives |-> drives]

\* the .ps1 files of the working directory
WorkingFiles(disk) ==
  LET with_main == IF disk.main.exists
                   THEN WriteFile(EmptyFiles, source_file, disk.main.lines)
                   ELSE EmptyFiles
  IN IF disk.launcher.exists
     THEN WriteFile(with_main, launcher_file, disk.launcher.lines)
     ELSE with_main

\* Path(modules_folder) / name, for the name of an import (empty, or ending
\* in .ps1): the directory it is looked up in and the name it has there.
\* pathlib drops the folder when the name starts with a drive, and Windows
\* then looks in the current directory of that drive, which is the working
\* directory when the script runs on it
ModuleFullPath(os, disk, name) ==
  IF HasDrive(os, name)
  THEN LET letter == Capital(name[1])
       IN [isdir |-> TRUE,
           files |-> IF letter = disk.drives.cwd THEN WorkingFiles(disk)
                     ELSE IF letter \in DOMAIN disk.drives.others
                     THEN disk.drives.others[letter]
                     ELSE EmptyFiles,
           isfolder |-> FALSE,
           name |-> SubSeq(name, 3, Len(name))]
  ELSE [isdir |-> disk.modules.exists,
        files |-> disk.modules.files,
        isfolder |-> name = <<>>,
        name |-> name]

\* module_full_path.exists(): a file of the directory, or the Modules
\* folder itself when the name is empty
ModuleExists(os, disk, name) ==
  LET path == ModuleFullPath(os, disk, name)
  IN path.isdir /\ (path.isfolder \/ Entries(os, path.files, path.name) # {})

\* one iteration of the loop of combine_powershell_scripts on the locals
\* st = [inside_show_dragon, combined_script, error]; error is the exception
\* the iteration raises, if any (read_file on a path that is the folder
\* itself)
CombineStep(st, line, os, disk) ==
  LET inside == st.inside_show_dragon \/ Contains(line, FunctionShowDragonToken)
      m == module_match(line)
      module_name == PathName(os, m.group)
      path == ModuleFullPath(os, disk, module_name)
  IN IF inside
     THEN [inside_show_dragon |-> ~(strip(line) = <<>>),
           combined_script |-> Append(st.combined_script, rstrip(line)),
           error |-> "none"]
     ELSE IF m.matched
     THEN IF ~ModuleExists(os, disk, module_name)
          THEN [inside_show_dragon |-> FALSE,
                combined_script |-> st.combined_script,
                error |-> "none"]
          ELSE IF path.isfolder
          THEN [inside_show_dragon |-> FALSE,
                combined_script |-> st.combined_script,
                error |-> DirectoryError(os)]
          ELSE [inside_show_dragon |-> FALSE,
                combined_script |-> st.combined_script \o
                  path.files[CHOOSE f \in Entries(os, path.files, path.name) : TRUE],
                error |-> "none"]
     ELSE [inside_show_dragon |-> FALSE,
           combined_script |-> st.combined_script \o clean_lines(<<line>>),
           error |-> "none"]

\* the loop: it ends with the list of lines or with the first exception
RECURSIVE CombineFold(_, _, _, _)
CombineFold(st, ls, os, disk) ==
  IF ls = <<>> \/ st.error # "none" THEN st
  ELSE CombineFold(CombineStep(st, ls[1], os, disk), Tail(ls), os, disk)

\* combine_powershell_scripts(source_file, modules_folder, output_file): the
\* build directory afterwards and the exception raised, if any
combine_powershell_scripts(os, disk, build, out_file) ==
  LET dir == ensure_directory_exists(build)
      st == CombineFold([inside_show_dragon |-> FALSE, combined_script |-> <<>>,
                         error |-> "none"],
                        disk.main.lines, os, disk)
  IN IF ~disk.main.exists
     THEN [build |-> dir, error |-> "FileNotFoundError"]
     ELSE IF st.error # "none"
     THEN [build |-> dir, error |-> st.error]
     ELSE [build |-> Dir(WriteFile(dir.files, PathName(os, out_file),
                                   Join(st.combined_script, <<"\n">>))),
           error |-> "none"]

(***************************************************************************)
(* update_launcher_script                                                  *)
(***************************************************************************)
\* PatchStep that replaces every line with the token
PatchStepEvery(st, line, output_filename) ==
  IF Contains(line, LauncherToken)
  THEN [found |-> TRUE,
        updated_lines |-> st.updated_lines \o
          <<UrlPrefix \o output_filename \o UrlSuffix, ps_code_to_insert>>]
  ELSE [found |-> st.found,
        updated_lines |-> Append(st.updated_lines, rstrip(line))]

\* one iteration of the loop of update_launcher_script on the locals
\* st = [found, updated_lines]
PatchStep(st, line, output_filename) ==
  IF Contains(line, LauncherToken) /\ ~st.found
  THEN [found |-> TRUE,
        updated_lines |-> st.updated_lines \o
          <<UrlPrefix \o output_filename \o UrlSuffix, ps_code_to_insert>>]
  ELSE [found |-> st.found,
        updated_lines |-> Append(st.updated_lines, rstrip(line))]

RECURSIVE PatchFold(_, _, _)
PatchFold(st, ls, output_filename) ==
  IF ls = <<>> THEN st
  ELSE PatchFold(PatchStep(st, ls[1], output_filename), Tail(ls), output_filename)

\* update_launcher_script(launcher_file, output_file): the build directory
\* afterwards and the exception raised, if any
update_launcher_script(os, launcher, build, out_file) ==
  LET st == PatchFold([found |-> FALSE, updated_lines |-> <<>>],
                      launcher.lines, PathName(os, out_file))
  IN IF ~launcher.exists \/ ~build.exists
     THEN [build |-> build, error |-> "FileNotFoundError"]
     ELSE [build |-> Dir(WriteFile(build.files, PathName(os, launcher_file),
                                   Join(st.updated_lines, <<"\n">>))),
           error |-> "none"]

(***************************************************************************)
(* The files the script is run on.                                         *)
(***************************************************************************)
\* a module with a comment line, as in the example of the specification
ModuleSimple == <<LModX, LComment, LModY>>
\* a module with a blank line, both tokens and an import of itself
ModuleNested == <<LModX, LComment, LBlank, LTrigger, LImportFoo, LFunction>>

\* the name under which LImportFoo finds its module
NameFoo(os) == IF os = "nt" THEN NameFooNt ELSE NameFooPosix

ModuleFolders(os) ==
  {NoDir,
   Dir(EmptyFiles),
   Dir(WriteFile(EmptyFiles, NameFoo(os), ModuleSimple)),
   Dir(WriteFile(EmptyFiles, NameFoo(os), ModuleNested))}

\* no drives on POSIX; on Windows the script runs on C: with no other drive,
\* or on D: with a launcher.ps1 in the current directory of C:
DriveSetups(os) ==
  IF os = "nt"
  THEN {[cwd |-> "C", others |-> [l \in {} |-> EmptyFiles]],
        [cwd |-> "D", others |-> [l \in {"C"} |-> WriteFile(EmptyFiles, launcher_file, <<LModY>>)]]}
  ELSE {[cwd |-> "", others |-> [l \in {} |-> EmptyFiles]]}

BuildNumbers == {0, 9997, 9998, 9999, 12000}
PatchNumbers == {0, 3}

SettingsWithVersion(patch, build) ==
  <<<<"defaultSource", PyStr("D:\\")>>,
    <<"defaultDestination", PyStr("B:\\DayAfter")>>,
    <<"version", PyDict(VersionDict(1, 0, patch, build))>>>>

\* a settings file without the version key and with a key of its own
SettingsNoVersion ==
  <<<<"defaultSource", PyStr("E:\\")>>, <<"theme", PyStr("dark")>>>>

\* a settings file that names a key twice
SettingsRepeatedKey ==
  <<<<"defaultSource", PyStr("D:\\")>>,
    <<"version", PyDict(VersionDict(2, 1, 0, 41))>>,
    <<"defaultSource", PyStr("F:\\")>>>>

SettingsFiles ==
  {FileAbsent, FileMalformed, JsonFile(SettingsNoVersion), JsonFile(SettingsRepeatedKey)}
    \cup {JsonFile(SettingsWithVersion(p, b)) : p \in PatchNumbers, b \in BuildNumbers}

MainFiles ==
  {NoFile,
   File(<<LFunction, LCodeComment, LBlank, LImportFoo, LComment, LCode>>),
   File(<<LTrigger, LComment, LImportGone, LCodeComment>>),
   File(<<LCode, LImportShare, LCode>>),
   File(<<LImportDrive, LCode>>)}

LauncherFiles ==
  {NoFile,
   File(<<LLaunchOther, LLaunchAssign, LLaunchUse>>),
   File(<<LLaunchOther, LBlank>>)}

BuildDirs ==
  {NoDir,
   Dir(EmptyFiles),
   Dir(WriteFile(WriteFile(EmptyFiles, StaleArtifactName, StaleContent),
                 StaleOtherName, StaleContent))}

(***************************************************************************)
(* __main__                                                                *)
(***************************************************************************)
\* StepOrder with the launcher patched before the build number is updated
StepOrderPatchFirst ==
  <<"delete_build_directory", "read_settings", "get_version_string",
    "combine_powershell_scripts", "update_launcher_script",
    "update_build_number", "print">>

\* StepOrder with the build number updated before the scripts are combined
StepOrderAdvanceFirst ==
  <<"delete_build_directory", "read_settings", "get_version_string",
    "update_build_number", "combine_powershell_scripts",
    "update_launcher_script", "print">>

\* the statements of __main__ in the order the script runs them
StepOrder ==
  <<"delete_build_directory", "read_settings", "get_version_string",
    "combine_powershell_scripts", "update_build_number",
    "update_launcher_script", "print">>

\* the statement that follows step, "done" after the last one
After(step) ==
  LET i == CHOOSE i \in DOMAIN StepOrder : StepOrder[i] = step
  IN IF i = Len(StepOrder) THEN "done" ELSE StepOrder[i + 1]

NoError == [exc |-> "none", in |-> "none"]
Raised(exc, step) == [exc |-> exc, in |-> step]

MainIdle ==
  /\ pc = "idle" /\ settings = <<>> /\ version_string = <<>>
  /\ console = <<>> /\ error = NoError /\ runs = 0
  /\ fs_settings = FileAbsent /\ fs_main = NoFile /\ fs_launcher = NoFile
  /\ fs_build = NoDir
CleanIdle ==
  lines = <<>> /\ cl_pos = 0 /\ inside_ascii_art = FALSE /\ cleaned_lines = <<>>
CombineIdle ==
  /\ main_script_lines = <<>> /\ cs_pos = 0
  /\ inside_show_dragon = FALSE /\ combined_script = <<>>
LauncherIdle ==
  launcher_lines = <<>> /\ ul_pos = 0 /\ found = FALSE /\ updated_lines = <<>>

Init ==
  /\ platform \in {"posix", "nt"}
  /\ fs_settings \in SettingsFiles
  /\ fs_main \in MainFiles
  /\ fs_modules \in ModuleFolders(platform)
  /\ fs_launcher \in LauncherFiles
  /\ fs_build \in BuildDirs
  /\ fs_drives \in DriveSetups(platform)
  /\ pc = StepOrder[1]
  /\ settings = <<>>
  /\ version_string = <<>>
  /\ output_file = <<>>
  /\ console = <<>>
  /\ error = NoError
  /\ runs = 1
  /\ line_pc = "idle"
  /\ CleanIdle /\ CombineIdle /\ LauncherIdle

\* line 207
DeleteBuild ==
  /\ pc = "delete_build_directory"
  /\ fs_build' = delete_build_directory(fs_build)
  /\ pc' = After(pc)
  /\ UNCHANGED <<platform, fs_drives, fs_settings, fs_main, fs_modules, fs_launcher>>
  /\ UNCHANGED <<settings, version_string, output_file, console, error, runs>>
  /\ UNCHANGED <<cleanVars, combineVars, launcherVars, stepVars>>

\* line 210
ReadSettings ==
  /\ pc = "read_settings"
  /\ LET r == read_settings(fs_settings)
     IN /\ fs_settings' = r.file
        /\ settings' = r.settings
        /\ IF r.error = "none"
           THEN pc' = After(pc) /\ error' = error
           ELSE pc' = "failed" /\ error' = Raised(r.error, pc)
  /\ UNCHANGED <<platform, fs_drives, fs_main, fs_modules, fs_launcher, fs_build>>
  /\ UNCHANGED <<version_string, output_file, console, runs>>
  /\ UNCHANGED <<cleanVars, combineVars, launcherVars, stepVars>>

\* lines 212-214
VersionString ==
  /\ pc = "get_version_string"
  /\ version_string' = get_version_string(Get(settings, "version").v)
  /\ output_file' =
       PathJoin(platform, BuildDirName, ArtifactPrefix \o version_string' \o ArtifactSuffix)
  /\ pc' = After(pc)
  /\ UNCHANGED <<fsVars, settings, console, error, runs>>
  /\ UNCHANGED <<cleanVars, combineVars, launcherVars, stepVars>>

\* line 217
Combine ==
  /\ pc = "combine_powershell_scripts"
  /\ LET r == combine_powershell_scripts(platform,
                Disk(fs_main, fs_modules, fs_launcher, fs_drives), fs_build, output_file)
     IN /\ fs_build' = r.build
        /\ IF r.error = "none"
           THEN pc' = After(pc) /\ error' = error
           ELSE pc' = "failed" /\ error' = Raised(r.error, pc)
  /\ UNCHANGED <<platform, fs_drives, fs_settings, fs_main, fs_modules, fs_launcher>>
  /\ UNCHANGED <<settings, version_string, output_file, console, runs>>
  /\ UNCHANGED <<cleanVars, combineVars, launcherVars, stepVars>>

\* line 219
UpdateBuildNumber ==
  /\ pc = "update_build_number"
  /\ LET r == update_build_number(settings)
     IN /\ settings' = r.settings
        /\ fs_settings' = r.file
  /\ pc' = After(pc)
  /\ UNCHANGED <<platform, fs_drives, fs_main, fs_modules, fs_launcher, fs_build>>
  /\ UNCHANGED <<version_string, output_file, console, error, runs>>
  /\ UNCHANGED <<cleanVars, combineVars, launcherVars, stepVars>>

\* line 221
UpdateLauncher ==
  /\ pc = "update_launcher_script"
  /\ LET r == update_launcher_script(platform, fs_launcher, fs_build, output_file)
     IN /\ fs_build' = r.build
        /\ IF r.error = "none"
           THEN pc' = After(pc) /\ error' = error
           ELSE pc' = "failed" /\ error' = Raised(r.error, pc)
  /\ UNCHANGED <<platform, fs_drives, fs_settings, fs_main, fs_modules, fs_launcher>>
  /\ UNCHANGED <<settings, version_string, output_file, console, runs>>
  /\ UNCHANGED <<cleanVars, combineVars, launcherVars, stepVars>>

\* line 224
PrintPath ==
  /\ pc = "print"
  /\ console' = Append(console, PrintPrefix \o output_file)
  /\ pc' = After(pc)
  /\ UNCHANGED <<fsVars, settings, version_string, output_file, error, runs>>
  /\ UNCHANGED <<cleanVars, combineVars, launcherVars, stepVars>>

\* the script is started again: a new process on the files the last one left
RunAgain ==
  /\ pc \in {"done", "failed"}
  /\ runs < MaxRuns
  /\ pc' = StepOrder[1]
  /\ settings' = <<>>
  /\ version_string' = <<>>
  /\ output_file' = <<>>
  /\ error' = NoError
  /\ runs' = runs + 1
  /\ UNCHANGED <<fsVars, console>>
  /\ UNCHANGED <<cleanVars, combineVars, launcherVars, stepVars>>

Next ==
  \/ DeleteBuild
  \/ ReadSettings
  \/ VersionString
  \/ Combine
  \/ UpdateBuildNumber
  \/ UpdateLauncher
  \/ PrintPath
  \/ RunAgain

Spec == Init /\ [][Next]_vars

(***************************************************************************)
(* clean_lines, one iteration of its loop at a time.                       *)
(***************************************************************************)
CleanLineSet == {LCode, LCodeComment, LComment, LBlank, LSpaces, LTrigger}

InitClean ==
  /\ lines \in SeqsUpTo(CleanLineSet, MaxLines)
  /\ cl_pos = 0
  /\ inside_ascii_art = FALSE
  /\ cleaned_lines = <<>>
  /\ platform = "posix" /\ fs_modules = NoDir /\ output_file = <<>>
  /\ fs_drives \in DriveSetups(platform)
  /\ line_pc = "idle"
  /\ MainIdle /\ CombineIdle /\ LauncherIdle

\* lines 41-55
CleanLoop ==
  /\ cl_pos < Len(lines)
  /\ LET st == CleanStep([inside_ascii_art |-> inside_ascii_art,
                          cleaned_lines |-> cleaned_lines], lines[cl_pos + 1])
     IN /\ inside_ascii_art' = st.inside_ascii_art
        /\ cleaned_lines' = st.cleaned_lines
  /\ cl_pos' = cl_pos + 1
  /\ UNCHANGED <<lines, fsVars, mainVars, combineVars, launcherVars, stepVars>>

NextClean == CleanLoop

SpecClean == InitClean /\ [][NextClean]_vars

(***************************************************************************)
(* combine_powershell_scripts, statement by statement, in a run of the     *)
(* script that has come to line 217.                                       *)
(***************************************************************************)
CombineLineSet ==
  {LCodeComment, LComment, LSpaces, LTrigger, LFunction, LImportFoo, LImportGone,
   LImportShare, LImportDrive}

\* a launcher with the token
LauncherSample == File(<<LLaunchOther, LLaunchAssign, LLaunchUse>>)

\* the state lines 207-214 leave when the run finds no settings file:
\* the output directory is deleted, the settings file is created with the
\* defaults and the output path is made from them
InitCombine ==
  /\ platform \in {"posix", "nt"}
  /\ fs_modules \in ModuleFolders(platform)
  /\ fs_drives \in DriveSetups(platform)
  /\ fs_main \in {NoFile} \cup {File(ls) : ls \in SeqsUpTo(CombineLineSet, MaxMainLines)}
  /\ fs_launcher = LauncherSample
  /\ fs_build = delete_build_directory(Dir(EmptyFiles))
  /\ LET r == read_settings(FileAbsent)
         v == get_version_string(Get(r.settings, "version").v)
     IN /\ fs_settings = r.file
        /\ settings = r.settings
        /\ version_string = v
        /\ output_file = PathJoin(platform, BuildDirName, ArtifactPrefix \o v \o ArtifactSuffix)
  /\ pc = "combine_powershell_scripts"
  /\ console = <<>> /\ error = NoError /\ runs = 1
  /\ line_pc = "ensure_directory_exists"
  /\ CleanIdle /\ CombineIdle /\ LauncherIdle

\* line 116
CombineEnsure ==
  /\ pc = "combine_powershell_scripts" /\ line_pc = "ensure_directory_exists"
  /\ fs_build' = ensure_directory_exists(fs_build)
  /\ line_pc' = "read_file"
  /\ UNCHANGED <<platform, fs_drives, fs_settings, fs_main, fs_modules, fs_launcher>>
  /\ UNCHANGED <<mainVars, cleanVars, combineVars, launcherVars>>

\* lines 119-126: read_file raises when there is no main script
CombineRead ==
  /\ pc = "combine_powershell_scripts" /\ line_pc = "read_file"
  /\ IF fs_main.exists
     THEN /\ main_script_lines' = fs_main.lines
          /\ line_pc' = "for"
          /\ pc' = pc /\ error' = error
     ELSE /\ main_script_lines' = main_script_lines
          /\ line_pc' = "raised"
          /\ pc' = "failed" /\ error' = Raised("FileNotFoundError", pc)
  /\ cs_pos' = 0 /\ inside_show_dragon' = FALSE /\ combined_script' = <<>>
  /\ UNCHANGED <<fsVars, cleanVars, launcherVars>>
  /\ UNCHANGED <<settings, version_string, output_file, console, runs>>

\* lines 128-153: an iteration of the loop
CombineLoop ==
  /\ pc = "combine_powershell_scripts" /\ line_pc = "for"
  /\ cs_pos < Len(main_script_lines)
  /\ LET st == CombineStep([inside_show_dragon |-> inside_show_dragon,
                            combined_script |-> combined_script,
                            error |-> "none"],
                           main_script_lines[cs_pos + 1], platform,
                           Disk(fs_main, fs_modules, fs_launcher, fs_drives))
     IN /\ inside_show_dragon' = st.inside_show_dragon
        /\ combined_script' = st.combined_script
        /\ IF st.error = "none"
           THEN line_pc' = line_pc /\ pc' = pc /\ error' = error
           ELSE line_pc' = "raised" /\ pc' = "failed" /\ error' = Raised(st.error, pc)
  /\ cs_pos' = cs_pos + 1
  /\ UNCHANGED <<main_script_lines, fsVars, cleanVars, launcherVars>>
  /\ UNCHANGED <<settings, version_string, output_file, console, runs>>

\* lines 155-158: the loop is over and the artifact is written
CombineWrite ==
  /\ pc = "combine_powershell_scripts" /\ line_pc = "for"
  /\ cs_pos = Len(main_script_lines)
  /\ fs_build' = Dir(WriteFile(fs_build.files, PathName(platform, output_file),
                               Join(combined_script, <<"\n">>)))
  /\ line_pc' = "return"
  /\ pc' = After(pc)
  /\ UNCHANGED <<platform, fs_drives, fs_settings, fs_main, fs_modules, fs_launcher>>
  /\ UNCHANGED <<settings, version_string, output_file, console, error, runs>>
  /\ UNCHANGED <<cleanVars, combineVars, launcherVars>>

NextCombine ==
  \/ CombineEnsure
  \/ CombineRead
  \/ CombineLoop
  \/ CombineWrite

SpecCombine == InitCombine /\ [][NextCombine]_vars

(***************************************************************************)
(* update_launcher_script, statement by statement, in a run of the script  *)
(* that has come to line 221.                                              *)
(***************************************************************************)
LauncherLineSet == {LLaunchAssign, LLaunchUse, LLaunchOther, LSpaces}

\* the settings files the run starts with: a build number that is advanced
\* and one that rolls over
LauncherSettings == {JsonFile(SettingsWithVersion(3, b)) : b \in {0, 9999}}

\* the main script of the run
MainSample == File(<<LCode>>)

\* the state lines 207-219 leave: the artifact is in the output directory
\* and the settings file holds the advanced version
InitLauncher ==
  /\ platform \in {"posix", "nt"}
  /\ fs_drives \in DriveSetups(platform)
  /\ fs_modules = NoDir
  /\ fs_main = MainSample
  /\ fs_launcher \in {NoFile} \cup
                     {File(ls) : ls \in SeqsUpTo(LauncherLineSet, MaxLauncherLines)}
  /\ \E s0 \in LauncherSettings :
       LET r == read_settings(s0)
           v == get_version_string(Get(r.settings, "version").v)
           out == PathJoin(platform, BuildDirName, ArtifactPrefix \o v \o ArtifactSuffix)
           u == update_build_number(r.settings)
       IN /\ version_string = v
          /\ output_file = out
          /\ fs_build = combine_powershell_scripts(platform,
                          Disk(fs_main, fs_modules, fs_launcher, fs_drives),
                          delete_build_directory(NoDir), out).build
          /\ settings = u.settings
          /\ fs_settings = u.file
  /\ pc = "update_launcher_script"
  /\ console = <<>> /\ error = NoError /\ runs = 1
  /\ line_pc = "read_file"
  /\ CleanIdle /\ CombineIdle /\ LauncherIdle

\* lines 180-183: read_file raises when there is no launcher
LauncherRead ==
  /\ pc = "update_launcher_script" /\ line_pc = "read_file"
  /\ IF fs_launcher.exists
     THEN /\ launcher_lines' = fs_launcher.lines
          /\ line_pc' = "for"
          /\ pc' = pc /\ error' = error
     ELSE /\ launcher_lines' = launcher_lines
          /\ line_pc' = "raised"
          /\ pc' = "failed" /\ error' = Raised("FileNotFoundError", pc)
  /\ ul_pos' = 0 /\ found' = FALSE /\ updated_lines' = <<>>
  /\ UNCHANGED <<fsVars, cleanVars, combineVars>>
  /\ UNCHANGED <<settings, version_string, output_file, console, runs>>

\* lines 184-193: an iteration of the loop
PatchLoop ==
  /\ pc = "update_launcher_script" /\ line_pc = "for"
  /\ ul_pos < Len(launcher_lines)
  /\ LET st == PatchStep([found |-> found, updated_lines |-> updated_lines],
                         launcher_lines[ul_pos + 1], PathName(platform, output_file))
     IN /\ found' = st.found
        /\ updated_lines' = st.updated_lines
  /\ ul_pos' = ul_pos + 1
  /\ UNCHANGED <<launcher_lines, fsVars, mainVars, cleanVars, combineVars, stepVars>>

\* lines 195-197: the loop is over and the launcher is written
LauncherWrite ==
  /\ pc = "update_launcher_script" /\ line_pc = "for"
  /\ ul_pos = Len(launcher_lines)
  /\ fs_build' = Dir(WriteFile(fs_build.files, PathName(platform, launcher_file),
                               Join(updated_lines, <<"\n">>)))
  /\ line_pc' = "return"
  /\ pc' = After(pc)
  /\ UNCHANGED <<platform, fs_drives, fs_settings, fs_main, fs_modules, fs_launcher>>
  /\ UNCHANGED <<settings, version_string, output_file, console, error, runs>>
  /\ UNCHANGED <<cleanVars, combineVars, launcherVars>>

NextLauncher ==
  \/ LauncherRead
  \/ PatchLoop
  \/ LauncherWrite

SpecLauncher == InitLauncher /\ [][NextLauncher]_vars
(***************************************************************************)
(* Reading the observable results back: the numbers in a file name, the    *)
(* version in the settings file.                                           *)
(***************************************************************************)
DigitValue(c) == CHOOSE d \in 0..9 : Digit(d) = c

RECURSIVE ParseNat(_)
ParseNat(s) ==
  IF s = <<>> THEN 0
  ELSE 10 * ParseNat(SubSeq(s, 1, Len(s) - 1)) + DigitValue(s[Len(s)])

\* the parts of s between its dots
RECURSIVE SplitDots(_)
SplitDots(s) ==
  IF \A i \in DOMAIN s : s[i] # "."
  THEN <<s>>
  ELSE LET d == CHOOSE i \in DOMAIN s : s[i] = "." /\ \A j \in 1..(i - 1) : s[j] # "."
       IN <<SubSeq(s, 1, d - 1)>> \o SplitDots(SubSeq(s, d + 1, Len(s)))

\* the four numbers of a version string
VersionNumbers(vs) == [i \in 1..4 |-> ParseNat(SplitDots(vs)[i])]

\* the file name of the artifact of a version string
ArtifactName(vs) == ArtifactPrefix \o vs \o ArtifactSuffix

\* the version string in the k-th line printed: what stands between
\* "build<sep>winDragon_" and ".ps1"
PrintedVersion(k) ==
  SubSeq(console[k],
         Len(PrintPrefix) + Len(BuildDirName) + 1 + Len(ArtifactPrefix) + 1,
         Len(console[k]) - Len(ArtifactSuffix))

PrintedBuild(k) == VersionNumbers(PrintedVersion(k))[4]
PrintedPatch(k) == VersionNumbers(PrintedVersion(k))[3]

\* the settings file holds an object with a version
HasStoredVersion ==
  fs_settings.state = "json" /\ \E i \in DOMAIN fs_settings.doc : fs_settings.doc[i][1] = "version"

\* the numbers of the version in the settings file, by name
StoredNumber(name) ==
  LET version == Get(fs_settings.doc, "version").v IN Get(version, name).v

\* the version string of the version in the settings file
StoredVersionString ==
  IntToStr(StoredNumber("major")) \o <<".">> \o IntToStr(StoredNumber("minor")) \o <<".">>
    \o IntToStr(StoredNumber("patch")) \o <<".">> \o IntToStr(StoredNumber("build"))

\* the settings a missing settings file is created with (section 4.1)
DocumentedDefaults ==
  <<<<"defaultSource", PyStr("D:\\")>>,
    <<"defaultDestination", PyStr("B:\\DayAfter")>>,
    <<"version", PyDict(<<<<"major", PyInt(1)>>, <<"minor", PyInt(0)>>,
                          <<"patch", PyInt(0)>>, <<"build", PyInt(0)>>>>)>>>>

Keys(d) == {d[i][1] : i \in DOMAIN d}

(***************************************************************************)
(* C1: two runs in a row                                                   *)
(***************************************************************************)
\* C1 as stated: after two successful runs in a row the build numbers of the
\* two artifacts differ by exactly 1, and the build number in the settings
\* file is the one the second run started with plus 1, whatever the initial
\* version.
C1_Original ==
  (pc = "done" /\ Len(console) >= 2) =>
    LET first == PrintedBuild(Len(console) - 1)
        second == PrintedBuild(Len(console))
    IN /\ second - first \in {1, -1}
       /\ HasStoredVersion
       /\ StoredNumber("build") = second + 1

\* C1 (amended): after two successful runs in a row, the second artifact's
\* build number is the first one's plus 1 when the first is below 9999, and
\* is 0 with the patch number one greater otherwise; the build number in the
\* settings file is the second artifact's plus 1 when that is below 9999 and
\* 0 otherwise.
C1_TwoRuns ==
  (pc = "done" /\ Len(console) >= 2) =>
    LET first == PrintedBuild(Len(console) - 1)
        second == PrintedBuild(Len(console))
    IN /\ first < 9999 => second = first + 1
                            /\ PrintedPatch(Len(console)) = PrintedPatch(Len(console) - 1)
       /\ first >= 9999 => second = 0
                             /\ PrintedPatch(Len(console)) = PrintedPatch(Len(console) - 1) + 1
       /\ HasStoredVersion
       /\ second < 9999 => StoredNumber("build") = second + 1
       /\ second >= 9999 => StoredNumber("build") = 0

C1_Witness ==
  /\ pc = "done" /\ Len(console) = 2
  /\ PrintedBuild(1) = 9997 /\ PrintedBuild(2) = 9998
  /\ HasStoredVersion /\ StoredNumber("build") = 9999

(***************************************************************************)
(* C2: the order of the steps of a run                                     *)
(***************************************************************************)
LauncherCopied(dir) == dir.exists /\ launcher_file \in DOMAIN dir.files
ArtifactWritten(dir, vs) == dir.exists /\ ArtifactName(vs) \in DOMAIN dir.files

\* C2 as stated: the build number is advanced only after the launcher
\* patcher has completed, so a run that fails inside the patcher leaves the
\* version in the settings file as the run found it.
C2_Original ==
  (pc = "failed" /\ error.in = "update_launcher_script") =>
    HasStoredVersion /\ StoredVersionString = version_string

\* C2 (amended): the steps of a run occur in the order delete the output
\* directory, load the settings, compute the version string, combiner,
\* advance and persist the build number, launcher patcher, print.  The build
\* number is persisted when the artifact is written and the launcher is not
\* yet copied, the launcher is copied when the stored version is already
\* past the artifact's, and a run that fails inside the patcher leaves the
\* stored version advanced.
C2_Order ==
  [][/\ (pc' # pc /\ pc' # "failed" /\ pc \notin {"done", "failed"}) =>
          <<pc, pc'>> \in
            {<<"delete_build_directory", "read_settings">>,
             <<"read_settings", "get_version_string">>,
             <<"get_version_string", "combine_powershell_scripts">>,
             <<"combine_powershell_scripts", "update_build_number">>,
             <<"update_build_number", "update_launcher_script">>,
             <<"update_launcher_script", "print">>,
             <<"print", "done">>}
     /\ (pc = "update_build_number") =>
          /\ ArtifactWritten(fs_build, version_string)
          /\ ~LauncherCopied(fs_build)
          /\ fs_build' = fs_build
          /\ StoredVersionString' # version_string
     /\ (LauncherCopied(fs_build') /\ ~LauncherCopied(fs_build)) =>
          /\ ArtifactWritten(fs_build, version_string)
          /\ StoredVersionString # version_string
          /\ fs_settings' = fs_settings
     /\ (pc' = "failed" /\ error'.in = "update_launcher_script") =>
          /\ HasStoredVersion'
          /\ StoredVersionString' # version_string
          /\ ~LauncherCopied(fs_build')
     /\ (pc = "read_settings") => ~fs_build.exists
     /\ (Len(console') > Len(console)) => LauncherCopied(fs_build)
    ]_vars

C2_Witness ==
  /\ pc = "failed" /\ error.in = "update_launcher_script"
  /\ ArtifactWritten(fs_build, version_string)
  /\ HasStoredVersion /\ StoredVersionString # version_string

(***************************************************************************)
(* C3: update_build_number                                                 *)
(***************************************************************************)
\* C3: update_build_number on settings with build b: when b >= 9999 the
\* result has build 0 and the patch number plus 1, otherwise build b + 1 and
\* the same patch number; major, minor and every other key are unchanged;
\* the settings file afterwards holds the whole resulting object; a build
\* number in 0..9999 stays in 0..9999.
C3_AdvanceBuild ==
  [][(pc = "update_build_number") =>
       LET old == Get(settings, "version").v
           new == Get(settings', "version").v
           b == Get(old, "build").v
       IN /\ b >= 9999 => /\ Get(new, "build").v = 0
                          /\ Get(new, "patch").v = Get(old, "patch").v + 1
          /\ b < 9999 => /\ Get(new, "build").v = b + 1
                         /\ Get(new, "patch").v = Get(old, "patch").v
          /\ Get(new, "major") = Get(old, "major")
          /\ Get(new, "minor") = Get(old, "minor")
          /\ Keys(new) = {"major", "minor", "patch", "build"}
          /\ Keys(settings') = Keys(settings)
          /\ \A key \in Keys(settings) \ {"version"} :
               Get(settings', key) = Get(settings, key)
          /\ fs_settings'.state = "json"
          /\ Len(fs_settings'.doc) = Len(settings')
          /\ \A i \in DOMAIN settings' : fs_settings'.doc[i][1] = settings'[i][1]
          /\ \A key \in Keys(settings') \ {"version"} :
               Get(fs_settings'.doc, key) = Get(settings', key)
          /\ Get(fs_settings'.doc, "version").v = new
          /\ b \in 0..9999 => Get(Get(fs_settings'.doc, "version").v, "build").v \in 0..9999
    ]_vars

C3_Witness ==
  /\ pc = "update_launcher_script"
  /\ VersionNumbers(version_string)[4] = 9999
  /\ HasStoredVersion
  /\ StoredNumber("build") = 0
  /\ StoredNumber("patch") = VersionNumbers(version_string)[3] + 1

(***************************************************************************)
(* C4: read_settings                                                       *)
(***************************************************************************)
\* C4: read_settings on a missing file returns the documented defaults and
\* leaves exactly that object in the file; on a file without the version key
\* it returns the file's contents with the default version added and every
\* other key as it was, and does not write the file; the settings file is
\* written only when it is created and when the build number is updated.
C4_Load ==
  [][/\ (pc = "read_settings" /\ fs_settings.state = "absent") =>
          /\ settings' = DocumentedDefaults
          /\ fs_settings' = [state |-> "json", doc |-> DocumentedDefaults]
     /\ (pc = "read_settings" /\ fs_settings.state = "json"
           /\ "version" \notin Keys(fs_settings.doc)) =>
          /\ Keys(settings') = Keys(fs_settings.doc) \cup {"version"}
          /\ \A key \in Keys(fs_settings.doc) :
               Get(settings', key) = Get(fs_settings.doc, key)
          /\ Get(settings', "version") = Get(DocumentedDefaults, "version")
          /\ fs_settings' = fs_settings
     /\ (fs_settings' # fs_settings) =>
          \/ pc = "read_settings" /\ fs_settings.state = "absent"
          \/ pc = "update_build_number"
    ]_vars

C4_Witness ==
  /\ pc = "get_version_string"
  /\ fs_settings = [state |-> "json", doc |-> SettingsNoVersion]
  /\ Keys(settings) = {"defaultSource", "theme", "version"}
  /\ Get(settings, "theme") = PyStr("dark")
  /\ Get(Get(settings, "version").v, "build") = PyInt(0)

(***************************************************************************)
(* C5: the combiner on an import line                                      *)
(***************************************************************************)
\* the line the combiner's loop handles next
NextMainLine == main_script_lines[cs_pos + 1]

\* C5: when the combiner, outside the verbatim function, handles a line that
\* matches the import pattern: if the module file exists, its lines are
\* appended as they are and in their order, and the combiner's verbatim flag
\* stays as it was; if it does not exist, nothing is appended; in neither
\* case is an error raised.
C5_Import ==
  [][(/\ cs_pos < Len(main_script_lines)
      /\ error = NoError
      /\ ~inside_show_dragon
      /\ ~Contains(NextMainLine, FunctionShowDragonToken)
      /\ module_match(NextMainLine).matched) =>
       LET name == PathName(platform, module_match(NextMainLine).group)
           held == IF fs_modules.exists
                   THEN {f \in DOMAIN fs_modules.files : SameName(platform, f, name)}
                   ELSE {}
           present == held # {}
           module == fs_modules.files[CHOOSE f \in held : TRUE]
       IN /\ inside_show_dragon' = FALSE
          /\ error' = NoError
          /\ present =>
               /\ Len(combined_script') = Len(combined_script) + Len(module)
               /\ \A i \in DOMAIN combined_script : combined_script'[i] = combined_script[i]
               /\ \A i \in DOMAIN module :
                    combined_script'[Len(combined_script) + i] = module[i]
          /\ ~present => combined_script' = combined_script
    ]_vars

(***************************************************************************)
(* C6: the verbatim block of clean_lines                                   *)
(***************************************************************************)
\* what clean_lines emits for a line outside a verbatim block
Cleaned(line) ==
  IF Contains(line, ShowDragonToken) THEN <<rstrip(line)>>
  ELSE IF strip(re_sub_comment(line, FALSE)) = <<>> THEN <<>>
  ELSE <<strip(re_sub_comment(line, FALSE))>>

\* lines i..j are a line with the token, non-blank lines and one blank line
IsVerbatimBlock(ls, i, j) ==
  /\ i < j
  /\ Contains(ls[i], ShowDragonToken)
  /\ \A k \in (i + 1)..(j - 1) : strip(ls[k]) # <<>>
  /\ strip(ls[j]) = <<>>

\* the last n entries of s
LastN(s, n) == SubSeq(s, Len(s) - n + 1, Len(s))

\* C6: when clean_lines has consumed a line with the token, non-blank lines
\* and a blank line, it has emitted each of them with only its trailing
\* whitespace removed and is outside verbatim mode again; the line after the
\* blank line is cleaned.
C6_VerbatimBlock ==
  \A i \in 1..Len(lines) : \A j \in 1..Len(lines) :
    IsVerbatimBlock(lines, i, j) =>
      /\ cl_pos = j =>
           /\ ~inside_ascii_art
           /\ Len(cleaned_lines) >= j - i + 1
           /\ LastN(cleaned_lines, j - i + 1) = [k \in 1..(j - i + 1) |-> rstrip(lines[i + k - 1])]
           /\ cleaned_lines[Len(cleaned_lines)] = <<>>
      /\ cl_pos = j + 1 =>
           LET after == Cleaned(lines[j + 1])
               n == j - i + 1 + Len(after)
           IN /\ Len(cleaned_lines) >= n
              /\ LastN(cleaned_lines, n) =
                   [k \in 1..(j - i + 1) |-> rstrip(lines[i + k - 1])] \o after

C6_Witness ==
  /\ cl_pos = 3
  /\ lines = <<LTrigger, LCodeComment, LSpaces>>
  /\ cleaned_lines = <<<<" ","S","h","o","w","-","D","r","a","g","o","n"," ","#"," ","a","r","t">>,
                       <<"","U+3000"," ","f","o","o"," ","#"," ","b","a","r">>,
                       <<>>>>
  /\ ~inside_ascii_art

(***************************************************************************)
(* C7: clean_lines called once per line                                    *)
(***************************************************************************)
\* no line of the main script is an import or starts the verbatim function
OnlyCleanedLines ==
  \A i \in DOMAIN main_script_lines :
    /\ ~module_match(main_script_lines[i]).matched
    /\ ~Contains(main_script_lines[i], FunctionShowDragonToken)

RECURSIVE CleanedEach(_)
CleanedEach(ls) == IF ls = <<>> THEN <<>> ELSE Cleaned(ls[1]) \o CleanedEach(Tail(ls))

\* C7 as stated: the combiner, handing such lines to clean_lines one per
\* call, emits what clean_lines emits for the whole list in one call.
C7_Original ==
  (OnlyCleanedLines /\ cs_pos = Len(main_script_lines)) =>
    combined_script = clean_lines(main_script_lines)

\* C7 (amended): clean_lines starts every call outside verbatim mode: of
\* lines handed to it one per call, a line with the token is emitted with
\* only its trailing whitespace removed and every other line is cleaned,
\* whatever the lines before it; this is what one call on the whole list
\* emits when no line has the token.
C7_PerCall ==
  (OnlyCleanedLines /\ cs_pos = Len(main_script_lines)) =>
    /\ combined_script = CleanedEach(main_script_lines)
    /\ (\A i \in DOMAIN main_script_lines : ~Contains(main_script_lines[i], ShowDragonToken))
         => combined_script = clean_lines(main_script_lines)

C7_Witness ==
  /\ cs_pos = 3
  /\ main_script_lines = <<LTrigger, LComment, LCodeComment>>
  /\ combined_script = <<rstrip(LTrigger), <<"f", "o", "o">>>>

(***************************************************************************)
(* C8: update_launcher_script                                              *)
(***************************************************************************)
\* the file name of the artifact: output_file without "build<sep>"
OutputFilename == SubSeq(output_file, Len(BuildDirName) + 2, Len(output_file))

\* the lines consumed so far that contain the token
TokenLines == {k \in 1..ul_pos : Contains(launcher_lines[k], LauncherToken)}

\* C8: of the launcher lines consumed, only the first one with the token is
\* replaced, by the URL assignment naming the artifact and then the snippet;
\* every other line is in its place with only trailing whitespace removed;
\* the output is one entry longer than the input when the token occurs and
\* as long as the input when it does not; the launcher that has been read
\* is patched without an error, and the copy written is these entries.
C8_Patch ==
  /\ (line_pc \in {"for", "return"}) => error = NoError
  /\ (line_pc = "return") =>
       /\ ul_pos = Len(launcher_lines)
       /\ launcher_lines = fs_launcher.lines
       /\ fs_build.files[launcher_file] = Join(updated_lines, <<"\n">>)
  /\ IF TokenLines = {}
       THEN /\ ~found
            /\ updated_lines = [k \in 1..ul_pos |-> rstrip(launcher_lines[k])]
       ELSE LET f == CHOOSE k \in TokenLines : \A m \in TokenLines : k <= m
            IN /\ found
               /\ Len(updated_lines) = ul_pos + 1
               /\ \A k \in 1..(f - 1) : updated_lines[k] = rstrip(launcher_lines[k])
               /\ updated_lines[f] = UrlPrefix \o OutputFilename \o <<"\"">>
               /\ updated_lines[f + 1] = ps_code_to_insert
               /\ \A k \in (f + 1)..ul_pos : updated_lines[k + 1] = rstrip(launcher_lines[k])

C8_Witness ==
  /\ line_pc = "return"
  /\ ul_pos = 3
  /\ launcher_lines = <<LLaunchOther, LLaunchAssign, LLaunchUse>>
  /\ Len(updated_lines) = 4
  /\ updated_lines[4] = rstrip(LLaunchUse)
  /\ updated_lines[3] = ps_code_to_insert

(***************************************************************************)
(* C9: the output directory after a successful run                         *)
(***************************************************************************)
\* C9: after a successful run the output directory holds exactly the
\* artifact named with the version the run started with and the launcher
\* copy; the version in the settings file is one advance past the
\* artifact's; the URL line of the launcher copy names the artifact.
C9_OutputDir ==
  (pc = "done") =>
    LET v == VersionNumbers(version_string)
    IN /\ fs_build.exists
       /\ DOMAIN fs_build.files = {ArtifactName(version_string), launcher_file}
       /\ HasStoredVersion
       /\ StoredNumber("major") = v[1] /\ StoredNumber("minor") = v[2]
       /\ IF v[4] >= 9999
          THEN StoredNumber("build") = 0 /\ StoredNumber("patch") = v[3] + 1
          ELSE StoredNumber("build") = v[4] + 1 /\ StoredNumber("patch") = v[3]
       /\ console[Len(console)] = PrintPrefix \o BuildDirName \o <<Sep(platform)>>
                                    \o ArtifactName(version_string)
       /\ (\E k \in DOMAIN fs_launcher.lines : Contains(fs_launcher.lines[k], LauncherToken)) =>
            /\ Contains(fs_build.files[launcher_file],
                        UrlPrefix \o ArtifactName(version_string) \o <<"\"", "\n">>)
            /\ ~Contains(fs_build.files[launcher_file], ArtifactName(StoredVersionString))

C9_Witness ==
  /\ pc = "done" /\ runs = 2 /\ Len(console) = 2
  /\ Cardinality(DOMAIN fs_build.files) = 2
  /\ Contains(fs_build.files[launcher_file], UrlPrefix)
  /\ console[1] # console[2]

(***************************************************************************)
(* C10: runs that fail before the artifact is written                      *)
(***************************************************************************)
\* C10: a run that fails loading the settings or reading the main script
\* leaves the version in the settings file as the run found it, and leaves
\* the output directory absent or empty; until the combiner has run the
\* settings file is written only to create it with the defaults.
C10_EarlyFailure ==
  [][/\ (pc' = "failed" /\ error'.in = "read_settings") =>
          /\ fs_settings' = fs_settings
          /\ fs_settings.state = "malformed"
          /\ ~fs_build'.exists
     /\ (pc' = "failed" /\ error'.in = "combine_powershell_scripts") =>
          /\ fs_settings' = fs_settings
          /\ HasStoredVersion => StoredVersionString = version_string
          /\ ~HasStoredVersion => version_string = <<"1", ".", "0", ".", "0", ".", "0">>
          /\ fs_build'.exists /\ DOMAIN fs_build'.files = {}
     /\ (pc \in {"delete_build_directory", "read_settings", "get_version_string"}) =>
          \/ fs_settings' = fs_settings
          \/ /\ fs_settings.state = "absent"
             /\ fs_settings' = [state |-> "json", doc |-> DocumentedDefaults]
    ]_vars

C10_Witness ==
  /\ pc = "failed" /\ error.in = "combine_powershell_scripts"
  /\ runs = 2
  /\ fs_build.exists /\ DOMAIN fs_build.files = {}
  /\ HasStoredVersion /\ StoredNumber("build") = 9999

=============================================================================
